---- MODULE Spec2Model ----
(***************************************************************************)
(* Model of the event aggregation pipeline of events_service.py:           *)
(* geocode_zip, fetch_ticketmaster_events, fetch_eventbrite_events and     *)
(* aggregate_events.                                                       *)
(*                                                                         *)
(* Conventions                                                             *)
(*   - a title is a sequence of one-character strings;                     *)
(*   - a timestamp is an integer number of ticks, TicksPerDay ticks to a   *)
(*     calendar day; datetime.date() is the day number; a datetime is a    *)
(*     timestamp with a tzinfo, "" for a naive one;                        *)
(*   - a URL is [http, base, id]: whether the text starts with "http", and *)
(*     the text as a base and the identifier that follows it;              *)
(*   - coordinates are integers in tenths of a mile along one meridian, so *)
(*     the geodesic distance of two points is the difference of their      *)
(*     latitudes;                                                          *)
(*   - an HTTP exchange is a response record chosen by the environment     *)
(*     when the request is answered;                                       *)
(*   - world names the answers the geocoder and the providers can give in  *)
(*     a run: "pipeline" has every kind of failure, the others vary the    *)
(*     items or the number of pages of one provider; it never changes.     *)
(***************************************************************************)
EXTENDS Integers, Sequences, FiniteSets, TLC

(***************************************************************************)
(* Bounds of the model                                                     *)
(***************************************************************************)
\* ticks per calendar day
TicksPerDay == 2
\* largest number of raw items in one page of a provider response
MaxItems == 1
\* largest totalPages / page_count a provider reports
MaxPages == 2
\* largest length of the merged list in the aggregation-only specification
MaxLen == 4
\* shift, in ticks, from UTC to the local zone of the machine
TzShift == 1
\* largest number of raw items in one page where the items are what varies
PageItems == 2
\* largest page count where the order of the page completions is what varies
PoolPages == 3
\* page count of a fetch with more later pages than the pool has workers
WidePages == 10

(***************************************************************************)
(* Program constants                                                       *)
(***************************************************************************)
\* key = (e.title.strip().lower()[:40], e.date.date())
KeyLen == 40
\* max_workers = min(8, total_pages)
PoolSize == 8
\* the built-in credentials
DEFAULT_TM_API_KEY == "VHANTNxOcGFfpUD3k3whDbU1TiqBfbGs"
DEFAULT_EB_API_KEY == "272DADRV35ZXG3IS55"

Min(a, b) == IF a < b THEN a ELSE b
Abs(a) == IF a < 0 THEN 0 - a ELSE a

\* all sequences over S of length at most n
SeqUpTo(S, n) == UNION {[1..k -> S] : k \in 0..n}

(***************************************************************************)
(* Strings: str.strip(), str.lower(), slicing                              *)
(***************************************************************************)
IsSpace(c) == c = " "

\* the lower-case form of a character of the alphabet used in titles
LowerChar(c) ==
  CASE c = "A" -> "a"
    [] c = "B" -> "b"
    [] c = "E" -> "e"
    [] c = "M" -> "m"
    [] c = "T" -> "t"
    [] OTHER -> c

\* s.lower()
Lower(s) == [i \in 1..Len(s) |-> LowerChar(s[i])]

RECURSIVE LStrip(_)
LStrip(s) == IF s # <<>> /\ IsSpace(Head(s)) THEN LStrip(Tail(s)) ELSE s

RECURSIVE RStrip(_)
RStrip(s) ==
  IF s # <<>> /\ IsSpace(s[Len(s)]) THEN RStrip(SubSeq(s, 1, Len(s) - 1)) ELSE s

\* s.strip()
Strip(s) == RStrip(LStrip(s))

\* s[:n]
Prefix(s, n) == SubSeq(s, 1, Min(n, Len(s)))

(***************************************************************************)
(* Event (dataclass) and its dedup key                                     *)
(***************************************************************************)
\* a datetime: ts the reading of its clock, tz its tzinfo, "" when naive
DateTime(ts, tz) == [ts |-> ts, tz |-> tz]
Naive(ts) == DateTime(ts, "")

Url(http, base, id) == [http |-> http, base |-> base, id |-> id]
NoUrl == Url(FALSE, "", "")

\* Event(title=..., date=dt, ...): date and tzinfo are the two parts of dt
Event(title, dt, latitude, longitude, url, source) ==
  [title |-> title, date |-> dt.ts, tzinfo |-> dt.tz, latitude |-> latitude,
   longitude |-> longitude, url |-> url, source |-> source]

\* datetime.date(): the calendar day of a timestamp
DateOf(ts) == ts \div TicksPerDay

\* variant of DedupKey: the title is not stripped of its whitespace
DedupKeyUnstripped(e) == <<Prefix(Lower(e.title), KeyLen), DateOf(e.date)>>

\* key = (e.title.strip().lower()[:40], e.date.date())
DedupKey(e) == <<Prefix(Lower(Strip(e.title)), KeyLen), DateOf(e.date)>>

\* variant of DedupLoop: a key that is met again is taken out of seen
RECURSIVE DedupLoopForgetful(_, _, _)
DedupLoopForgetful(all_events, seen, uniq) ==
  IF all_events = <<>> THEN uniq
  ELSE LET e == Head(all_events)
           key == DedupKey(e)
       IN IF key \in seen
            THEN DedupLoopForgetful(Tail(all_events), seen \ {key}, uniq)
            ELSE DedupLoopForgetful(Tail(all_events), seen \cup {key}, Append(uniq, e))

\* the loop of aggregate_events over all_events: seen / uniq
RECURSIVE DedupLoop(_, _, _)
DedupLoop(all_events, seen, uniq) ==
  IF all_events = <<>> THEN uniq
  ELSE LET e == Head(all_events)
           key == DedupKey(e)
       IN IF key \in seen
            THEN DedupLoop(Tail(all_events), seen, uniq)
            ELSE DedupLoop(Tail(all_events), seen \cup {key}, Append(uniq, e))

\* variant of Dedup: the events are kept with their titles stripped
DedupStripping(all_events) ==
  DedupLoop([i \in 1..Len(all_events) |->
               [all_events[i] EXCEPT !.title = Strip(all_events[i].title)]], {}, <<>>)

Dedup(all_events) == DedupLoop(all_events, {}, <<>>)

\* variant of AllEvents: the Eventbrite events come first
AllEventsEventbriteFirst(tmList, ebList) == ebList \o tmList

\* all_events = tm + eb
AllEvents(tmList, ebList) == tmList \o ebList

\* variant of InsertByDate: e goes before the elements of equal date
RECURSIVE InsertByDateUnstable(_, _)
InsertByDateUnstable(sorted, e) ==
  IF sorted = <<>> THEN <<e>>
  ELSE IF Head(sorted).date < e.date
         THEN <<Head(sorted)>> \o InsertByDateUnstable(Tail(sorted), e)
         ELSE <<e>> \o sorted

\* insertion of e into an already sorted list, after every element whose
\* date is not greater (what a stable sort does with a later element)
RECURSIVE InsertByDate(_, _)
InsertByDate(sorted, e) ==
  IF sorted = <<>> THEN <<e>>
  ELSE IF Head(sorted).date <= e.date
         THEN <<Head(sorted)>> \o InsertByDate(Tail(sorted), e)
         ELSE <<e>> \o sorted

RECURSIVE SortLoop(_, _)
SortLoop(rest, acc) ==
  IF rest = <<>> THEN acc
  ELSE SortLoop(Tail(rest), InsertByDate(acc, Head(rest)))

\* sorted(uniq, key=lambda x: x.date)
SortByDate(uniq) == SortLoop(uniq, <<>>)

\* the dates of the list can be compared pairwise: the comparison of an
\* aware datetime with a naive one raises TypeError
Comparable(list) ==
  \A i, j \in 1..Len(list) : (list[i].tzinfo = "") = (list[j].tzinfo = "")

\* geopy.distance.geodesic(...).miles for two points of one meridian
haversine_miles(lat1, lon1, lat2, lon2) == Abs(lat1 - lat2)

(***************************************************************************)
(* Raw provider items and their normalisation into Events                  *)
(*                                                                         *)
(* A raw item is [name, dt, venue, url, id]:                               *)
(*   name   the title, <<>> when the provider sends none;                  *)
(*   dt     [kind, ts]: "iso_utc" an ISO-8601 text with a UTC offset,      *)
(*          "iso_naive" one without offset, "date_prefix" a text that is   *)
(*          not ISO-8601 but starts with a date, "none" no text, "bad" a   *)
(*          text that parses in neither way;                               *)
(*   venue  [kind, lat]: "ok" coordinates given, "nolocation" a venue      *)
(*          without coordinates, "novenue" no venue at all, "emptylist"    *)
(*          an empty venue list, "nulllat" a latitude that is null,        *)
(*          "badlat" a latitude that is no number;                         *)
(*   url    the "url" field, NoUrl when absent, null or empty;             *)
(*   id     the "id" field, "" when absent, null or empty.                 *)
(***************************************************************************)
NoEvent == Event(<<>>, Naive(0), 0, 0, NoUrl, "")

Normalized(e) == [tag |-> "event", ev |-> e]
Skipped == [tag |-> "skip", ev |-> NoEvent]
Raised == [tag |-> "raise", ev |-> NoEvent]

\* variant of to_local_naive: the local zone is not taken off the datetime
to_local_aware(dt) == IF dt.tz # "" THEN DateTime(dt.ts + TzShift, "local") ELSE dt

\* dt.astimezone(tz=None).replace(tzinfo=None) for an aware dt, dt otherwise
to_local_naive(dt) == IF dt.tz # "" THEN DateTime(dt.ts + TzShift, "") ELSE dt

\* the value of dt when no datetime was assigned to it
NoDate == Naive(0 - 1)

\* variant of ParseDate: a text that parses in neither way gets a date
ParseDateLenient(dt) ==
  CASE dt.kind = "iso_utc" -> <<TRUE, DateTime(dt.ts, "UTC")>>
    [] dt.kind = "iso_naive" -> <<TRUE, Naive(dt.ts)>>
    [] dt.kind = "date_prefix" -> <<TRUE, Naive(DateOf(dt.ts) * TicksPerDay)>>
    [] OTHER -> <<TRUE, NoDate>>

\* datetime.fromisoformat(...), else datetime.strptime(dt_text[:10], ...);
\* the result is <<parsed, datetime>>
ParseDate(dt) ==
  CASE dt.kind = "iso_utc" -> <<TRUE, DateTime(dt.ts, "UTC")>>
    [] dt.kind = "iso_naive" -> <<TRUE, Naive(dt.ts)>>
    [] dt.kind = "date_prefix" -> <<TRUE, Naive(DateOf(dt.ts) * TicksPerDay)>>
    [] OTHER -> <<FALSE, NoDate>>

TMDefaultName == <<"T", "M">>
EBDefaultName == <<"E", "B">>

TMEventBase == "https://www.ticketmaster.com/event/"

\* _tm_event_url: the url field when it starts with "http", else the
\* canonical URL of the id, else ""
tm_event_url(ev) ==
  IF ev.url # NoUrl /\ ev.url.http THEN ev.url
  ELSE IF ev.id # "" THEN Url(TRUE, TMEventBase, ev.id)
  ELSE NoUrl

\* url = (ev.get("url") or "").strip() in _process_events
eb_event_url(ev) == ev.url

\* body of the loops over items0 / items in fetch_ticketmaster_events
TMNormalize(ev, lat, lon) ==
  LET name == IF ev.name # <<>> THEN ev.name ELSE TMDefaultName
      parsed == ParseDate(ev.dt)
  IN IF ev.dt.kind = "none" THEN Skipped
     ELSE IF ~parsed[1] THEN Skipped
     ELSE IF ev.venue.kind \in {"emptylist", "nulllat", "badlat"} THEN Raised
     ELSE LET vlat == IF ev.venue.kind = "ok" THEN ev.venue.lat ELSE lat
          IN Normalized(Event(name, to_local_naive(parsed[2]), vlat, lon,
                              tm_event_url(ev), "Ticketmaster"))

\* _coerce_latlon: the venue's latitude, the search centre when it is
\* missing or no number
coerce_latlon(v, lat, lon) == IF v.kind = "ok" THEN <<v.lat, lon>> ELSE <<lat, lon>>

\* body of the loop of _process_events in fetch_eventbrite_events
EBNormalize(ev, lat, lon) ==
  LET name == IF ev.name # <<>> THEN ev.name ELSE EBDefaultName
      parsed == ParseDate(ev.dt)
      ll == coerce_latlon(ev.venue, lat, lon)
  IN IF ev.dt.kind = "none" THEN Skipped
     ELSE IF ~parsed[1] THEN Skipped
     ELSE Normalized(Event(name, to_local_naive(parsed[2]), ll[1], ll[2],
                           eb_event_url(ev), "Eventbrite"))

\* The loop over one Ticketmaster page: the events appended to out before
\* the first item that raises, and whether an item raised.
RECURSIVE TMProcessLoop(_, _, _, _)
TMProcessLoop(items, lat, lon, acc) ==
  IF items = <<>> THEN [events |-> acc, raised |-> FALSE]
  ELSE LET n == TMNormalize(Head(items), lat, lon)
       IN CASE n.tag = "raise" -> [events |-> acc, raised |-> TRUE]
            [] n.tag = "skip" -> TMProcessLoop(Tail(items), lat, lon, acc)
            [] OTHER -> TMProcessLoop(Tail(items), lat, lon, Append(acc, n.ev))

TMProcess(items, lat, lon) == TMProcessLoop(items, lat, lon, <<>>)

\* _process_events: every item is normalised inside its own try/except
RECURSIVE process_events(_, _, _)
process_events(items, lat, lon) ==
  IF items = <<>> THEN <<>>
  ELSE LET n == EBNormalize(Head(items), lat, lon)
       IN IF n.tag = "event"
            THEN <<n.ev>> \o process_events(Tail(items), lat, lon)
            ELSE process_events(Tail(items), lat, lon)

(***************************************************************************)
(* HTTP exchanges                                                          *)
(*                                                                         *)
(* A response is [kind, status, json, items, pages]:                       *)
(*   kind    "exc" when requests.get raises (timeout, network error),      *)
(*           "http" when a response arrives;                               *)
(*   json    "bad" when the body of a 200 response is no JSON document;    *)
(*   items   the raw items of the page;                                    *)
(*   pages   [k, n]: the page count of the pagination metadata, "absent",  *)
(*           "bad" (no integer) or "int" with value n.                     *)
(***************************************************************************)
NoPages == [k |-> "absent", n |-> 0]
NoResp == [kind |-> "none", status |-> 0, json |-> "ok", items |-> <<>>, pages |-> NoPages]
ExcResp == [kind |-> "exc", status |-> 0, json |-> "ok", items |-> <<>>, pages |-> NoPages]
StatusResp(s, items, pages) == [kind |-> "http", status |-> s, json |-> "ok", items |-> items, pages |-> pages]
BadJsonResp == [kind |-> "http", status |-> 200, json |-> "bad", items |-> <<>>, pages |-> NoPages]
OkResp(items, pages) == [kind |-> "http", status |-> 200, json |-> "ok", items |-> items, pages |-> pages]

\* int(pg0.get("totalPages", 1)) or 1; <<raised, total_pages>>
TotalPages(pages) ==
  CASE pages.k = "absent" -> <<FALSE, 1>>
    [] pages.k = "bad" -> <<TRUE, 0>>
    [] OTHER -> <<FALSE, IF pages.n = 0 THEN 1 ELSE pages.n>>


(***************************************************************************)
(* The environment: what the geocoder and the providers may answer         *)
(***************************************************************************)
\* radius_miles of the search, in tenths of a mile
Radius == 50
\* latitude of a venue outside the radius, in tenths of a mile from the centre
FarLat == 61

TitleA == <<"a">>
TitleA2 == <<" ", "A">>

Dt(kind, ts) == [kind |-> kind, ts |-> ts]
Venue(kind, lat) == [kind |-> kind, lat |-> lat]
RawItem(name, dt, venue, url, id) ==
  [name |-> name, dt |-> dt, venue |-> venue, url |-> url, id |-> id]

\* a url field that is a full address, one that is a path only, and an item
\* identifier
DirectUrl == Url(TRUE, "https://tickets.example/e/", "1")
RelativeUrl == Url(FALSE, "/e/", "1")
ItemId == "G5v0Z9"

\* the raw items a provider page is made of
RawPool ==
  { RawItem(TitleA, Dt("iso_naive", TicksPerDay), Venue("nolocation", 0), DirectUrl, ItemId),
    RawItem(TitleA2, Dt("iso_utc", TicksPerDay), Venue("ok", FarLat), NoUrl, ItemId) }

PageCounts ==
  {[k |-> "absent", n |-> 0], [k |-> "bad", n |-> 0]}
    \cup {[k |-> "int", n |-> n] : n \in 0..MaxPages}

\* a response with an error status still has a body: here one that lists an
\* item and announces MaxPages pages
ErrorBodyItems ==
  <<RawItem(TitleA, Dt("iso_naive", TicksPerDay), Venue("nolocation", 0), DirectUrl, ItemId)>>
ErrorStatuses == {401, 403, 500}
FailedResponses ==
  {ExcResp, BadJsonResp}
    \cup {StatusResp(s, ErrorBodyItems, [k |-> "int", n |-> MaxPages]) : s \in ErrorStatuses}

\* answers to the request of the first page
FirstResponses ==
  FailedResponses
    \cup {OkResp(items, pages) : items \in SeqUpTo(RawPool, MaxItems), pages \in PageCounts}

\* answers to the request of a later page
PageResponses ==
  FailedResponses \cup {OkResp(items, NoPages) : items \in SeqUpTo(RawPool, MaxItems)}

\* answers of the geocoder: an exception, no match, or a location
GeoResponses ==
  {[kind |-> "exc", lat |-> 0, lon |-> 0], [kind |-> "nomatch", lat |-> 0, lon |-> 0],
   [kind |-> "loc", lat |-> 0, lon |-> 0]}

\* the geocoder finds the postal code
GeoFound == {[kind |-> "loc", lat |-> 0, lon |-> 0]}

\* a provider that has count pages without items and never fails
QuietFirstOf(count) == {OkResp(<<>>, [k |-> "int", n |-> count])}
QuietFirst == QuietFirstOf(MaxPages)
QuietPage == {OkResp(<<>>, NoPages)}

\* pages made of at most n items of pool, the first page announcing up to
\* count pages
FirstPagesOf(pool, n, count) ==
  {OkResp(items, [k |-> "int", n |-> c]) : items \in SeqUpTo(pool, n), c \in 1..count}
LaterPagesOf(pool, n) == {OkResp(items, NoPages) : items \in SeqUpTo(pool, n)}

\* a later page that is not delivered: no answer, or a server error
LostPages == {ExcResp, StatusResp(500, ErrorBodyItems, NoPages)}

TitleN == <<"n">>
TitleX == <<"x">>
TitleV == <<"v">>
TitleW == <<"w">>

\* items that differ in their start timestamp: a date-only text, none, and
\* a text that is no date
DatesPool ==
  { RawItem(TitleA, Dt("date_prefix", TicksPerDay + 1), Venue("nolocation", 0), DirectUrl, ItemId),
    RawItem(TitleN, Dt("none", 0), Venue("nolocation", 0), DirectUrl, ItemId),
    RawItem(TitleX, Dt("bad", 0), Venue("nolocation", 0), DirectUrl, ItemId) }

(***************************************************************************)
(* Outcomes of a call: it returns a value, raises, or goes on              *)
(***************************************************************************)
Return(out) == [tag |-> "return", exc |-> "", out |-> out, total |-> 0]
Raise(exc) == [tag |-> "raise", exc |-> exc, out |-> <<>>, total |-> 0]
Continue(out, total) == [tag |-> "continue", exc |-> "", out |-> out, total |-> total]

(***************************************************************************)
(* geocode_zip                                                             *)
(***************************************************************************)
NoCoords == [found |-> FALSE, lat |-> 0, lon |-> 0]
Coords(lat, lon) == [found |-> TRUE, lat |-> lat, lon |-> lon]

\* the try block of geocode_zip
GeocodeTry(g) ==
  CASE g.kind = "exc" -> Raise("GeocoderError")
    [] g.kind = "loc" -> Return(Coords(g.lat, g.lon))
    [] OTHER -> Return(NoCoords)

\* variant of geocode_zip: the exception of the lookup is not caught
geocode_zip_uncaught(g) == GeocodeTry(g)

\* geocode_zip: except Exception: pass; return None
geocode_zip(g) ==
  LET o == GeocodeTry(g)
  IN IF o.tag = "raise" THEN Return(NoCoords) ELSE o


(***************************************************************************)
(* fetch_ticketmaster_events                                               *)
(***************************************************************************)
\* the try block up to the submission of the page requests: the first
\* request, the page count and the loop over the items of the first page
TMFirst(resp, lat, lon) ==
  IF resp.kind = "exc" THEN Raise("RequestException")
  ELSE IF resp.status \in {401, 403} THEN Raise("Unauthorized")
  ELSE IF resp.status # 200 THEN Return(<<>>)
  ELSE IF resp.json = "bad" THEN Raise("JSONDecodeError")
  ELSE LET tp == TotalPages(resp.pages)
           pr == TMProcess(resp.items, lat, lon)
       IN IF tp[1] THEN Raise("BadPageCount")
          ELSE IF pr.raised THEN Raise("BadItem")
          ELSE IF tp[2] > 1 THEN Continue(pr.events, tp[2])
          ELSE Return(pr.events)

\* variant of TMExcept: the exception goes to the caller
TMExceptReraise(o) == o

\* except Exception: return [] around the whole body
TMExcept(o) == IF o.tag = "raise" THEN Return(<<>>) ELSE o

\* fetch_page(p), run by a worker of the pool
fetch_page(resp) ==
  IF resp.kind = "exc" THEN Raise("RequestException")
  ELSE IF resp.status \in {401, 403} THEN Raise("Unauthorized")
  ELSE IF resp.status # 200 THEN Return(<<>>)
  ELSE IF resp.json = "bad" THEN Raise("JSONDecodeError")
  ELSE Return(resp.items)

\* variant of TMConsumeFuture: the events of the page replace out
TMConsumeFutureOverwrite(out, fut, lat, lon) ==
  IF fut.result.tag = "raise" THEN out
  ELSE TMProcess(fut.result.out, lat, lon).events

\* the body of the loop over as_completed(futures) for one future: the new
\* value of out; an exception of the future or of an item is caught and the
\* loop goes on
TMConsumeFuture(out, fut, lat, lon) ==
  IF fut.result.tag = "raise" THEN out
  ELSE out \o TMProcess(fut.result.out, lat, lon).events

Future(state, resp, res) == [state |-> state, resp |-> resp, result |-> res]
PendingFuture == Future("pending", NoResp, Return(<<>>))

\* max_workers = min(8, total_pages)
MaxWorkers(total) == Min(PoolSize, total)

\* variant of SubmittedPages: the first page is submitted again
SubmittedPagesFromZero(total) == 0..(total - 1)

\* the pages fetch_page is submitted for: range(1, total_pages)
SubmittedPages(total) == 1..(total - 1)

(***************************************************************************)
(* fetch_eventbrite_events                                                 *)
(***************************************************************************)
\* variant of EBFirst: a status other than 200 and 401 is not looked at
EBFirstAnyStatus(resp, lat, lon) ==
  IF resp.kind = "exc" THEN Raise("RequestException")
  ELSE IF resp.status = 401 THEN Raise("Unauthorized")
  ELSE IF resp.json = "bad" THEN Raise("JSONDecodeError")
  ELSE LET pc0 == TotalPages(resp.pages)
           out == process_events(resp.items, lat, lon)
       IN IF pc0[1] THEN Raise("BadPageCount")
          ELSE IF pc0[2] > 1 THEN Continue(out, pc0[2])
          ELSE Return(out)

\* the try block up to the loop over the later pages
EBFirst(resp, lat, lon) ==
  IF resp.kind = "exc" THEN Raise("RequestException")
  ELSE IF resp.status = 401 THEN Raise("Unauthorized")
  ELSE IF resp.status # 200 THEN Return(<<>>)
  ELSE IF resp.json = "bad" THEN Raise("JSONDecodeError")
  ELSE LET pc0 == TotalPages(resp.pages)
           out == process_events(resp.items, lat, lon)
       IN IF pc0[1] THEN Raise("BadPageCount")
          ELSE IF pc0[2] > 1 THEN Continue(out, pc0[2])
          ELSE Return(out)

\* one iteration of for p in range(2, page_count + 1), p being the page
EBPage(resp, out, p, count, lat, lon) ==
  IF resp.kind = "exc" THEN Raise("RequestException")
  ELSE IF resp.status # 200 THEN Return(out)
  ELSE IF resp.json = "bad" THEN Raise("JSONDecodeError")
  ELSE LET out2 == out \o process_events(resp.items, lat, lon)
       IN IF p < count THEN Continue(out2, count) ELSE Return(out2)

\* variant of EBExcept: the exception goes to the caller
EBExceptReraise(o) == o

\* except Exception: return [] around the whole body
EBExcept(o) == IF o.tag = "raise" THEN Return(<<>>) ELSE o

(***************************************************************************)
(* State                                                                   *)
(***************************************************************************)
VARIABLES
  world,         \* what the geocoder and the providers may answer in this run
  tm_key,        \* argument of aggregate_events: the caller's Ticketmaster key
  eb_key,        \* the Eventbrite key the caller holds; aggregate_events has
                 \* no parameter that takes it
  requests,      \* the requests issued so far by the calls still in progress
  pc,            \* position in aggregate_events
  zip_code,      \* argument of aggregate_events
  radius_miles,  \* argument of aggregate_events
  coords,        \* result of geocode_zip
  tm, eb,        \* lists returned by the two provider fetches
  result,        \* list returned by aggregate_events
  escaped,       \* exception that left aggregate_events, "" if none
  geo,           \* kind of the geocoder's answer, "" before the lookup
  tmResp0,       \* resp0 of fetch_ticketmaster_events
  tmOut,         \* out of fetch_ticketmaster_events
  total_pages,   \* total_pages of fetch_ticketmaster_events
  futures,       \* futures of fetch_ticketmaster_events, by page
  tmEnd,         \* how the Ticketmaster fetch ended: "", "returned", "raised"
  tmExc,         \* exception raised inside the Ticketmaster fetch, "" if none
  tmStatus0,     \* status of the first Ticketmaster response, 0 if none came
  ebResp0,       \* r0 of fetch_eventbrite_events
  ebOut,         \* out of fetch_eventbrite_events
  page_count,    \* page_count of fetch_eventbrite_events
  ebLog,         \* responses to the requests of pages 2, 3, ... in order
  ebEnd,         \* how the Eventbrite fetch ended
  ebExc,         \* exception raised inside the Eventbrite fetch
  ebStatus0,     \* status of the first Eventbrite response
  ticketmaster_api_key,  \* self.ticketmaster_api_key of the EventsCalendar
  eventbrite_api_key,    \* self.eventbrite_api_key of the EventsCalendar
  calendar_pc,           \* position in EventsCalendar.fetch_all_events
  calendar_response,     \* the response fetch_ticketmaster_events received
  calendar_fetched,      \* the list fetch_ticketmaster_events returned
  calendar_all_events,   \* all_events of fetch_all_events
  calendar_events        \* self.events of the EventsCalendar

aggVars == <<zip_code, radius_miles, coords, tm, eb, result, escaped, geo>>
tmFrame == <<tmResp0, tmOut, total_pages, futures>>
tmGhost == <<tmEnd, tmExc, tmStatus0>>
ebFrame == <<ebResp0, ebOut, page_count, ebLog>>
ebGhost == <<ebEnd, ebExc, ebStatus0>>
calVars == <<ticketmaster_api_key, eventbrite_api_key, calendar_pc, calendar_response,
             calendar_fetched, calendar_all_events, calendar_events>>
serviceVars == <<world, tm_key, eb_key, requests, pc, aggVars, tmFrame, tmGhost, ebFrame, ebGhost>>
vars == <<serviceVars, calVars>>

\* items that differ in their venue, url and id fields
FieldsPool ==
  { RawItem(TitleV, Dt("iso_naive", TicksPerDay), Venue("emptylist", 0), NoUrl, ItemId),
    RawItem(TitleW, Dt("iso_naive", TicksPerDay), Venue("nulllat", 0), DirectUrl, ItemId),
    RawItem(TitleN, Dt("iso_naive", TicksPerDay), Venue("novenue", 0), RelativeUrl, ItemId),
    RawItem(TitleX, Dt("iso_naive", TicksPerDay), Venue("nolocation", 0), NoUrl, "") }

\* a request: the service it goes to and the page it asks for
\* and the credential it carries
Req(to, page, key) == [to |-> to, page |-> page, key |-> key]

\* no credential: None or the empty string
NoKey == ""

\* api_key or DEFAULT_..._API_KEY
ResolveKey(api_key, default) == IF api_key # NoKey THEN api_key ELSE default

\* the api_key aggregate_events passes to fetch_eventbrite_events: None
EBApiKeyArgument == NoKey

\* the credentials a caller may hold: none, or a key of their own
TMCallerKey == "Ticketmaster key of the caller"
EBCallerKey == "Eventbrite key of the caller"

\* the answers of the environment in the current world
GeoAnswers == IF world = "pipeline" THEN GeoResponses ELSE GeoFound

TMFirstAnswers ==
  CASE world = "pipeline" -> FirstResponses
    [] world = "tm_dates" -> FirstPagesOf(DatesPool, PageItems, MaxPages)
    [] world = "tm_pages" -> FirstPagesOf(RawPool, MaxItems, PoolPages)
    [] world = "tm_fields" -> FirstPagesOf(FieldsPool, PageItems, MaxPages)
    [] world = "keys" -> FirstPagesOf(RawPool, MaxItems, MaxPages)
    [] world = "tm_wide" -> QuietFirstOf(WidePages)
    [] OTHER -> QuietFirst

TMPageAnswers ==
  CASE world = "pipeline" -> PageResponses
    [] world = "tm_dates" -> LaterPagesOf(DatesPool, PageItems)
    [] world = "tm_pages" -> LaterPagesOf(RawPool, MaxItems) \cup LostPages
    [] world = "tm_fields" -> LaterPagesOf(FieldsPool, PageItems)
    [] world = "keys" -> LaterPagesOf(RawPool, MaxItems)
    [] OTHER -> QuietPage

EBFirstAnswers ==
  CASE world = "pipeline" -> FirstResponses
    [] world = "eb_dates" -> FirstPagesOf(DatesPool, PageItems, MaxPages)
    [] world = "tm_pages" -> QuietFirstOf(PoolPages)
    [] world = "eb_fields" -> FirstPagesOf(FieldsPool, PageItems, MaxPages)
    [] world = "keys" -> FirstPagesOf(RawPool, MaxItems, MaxPages)
    [] OTHER -> QuietFirst

EBPageAnswers ==
  CASE world = "pipeline" -> PageResponses
    [] world = "eb_dates" -> LaterPagesOf(DatesPool, PageItems)
    [] world = "eb_fields" -> LaterPagesOf(FieldsPool, PageItems)
    [] world = "keys" -> LaterPagesOf(RawPool, MaxItems)
    [] OTHER -> QuietPage

ZipCodes == {<<>>, <<"0", "1", "9", "0", "7">>}

IdleFrames ==
  /\ tmResp0 = NoResp /\ tmOut = <<>> /\ total_pages = 1 /\ futures = <<>>
  /\ tmEnd = "" /\ tmExc = "" /\ tmStatus0 = 0
  /\ ebResp0 = NoResp /\ ebOut = <<>> /\ page_count = 1 /\ ebLog = <<>>
  /\ ebEnd = "" /\ ebExc = "" /\ ebStatus0 = 0

\* a response to a request of the EventsCalendar: none was received, the
\* request raised, or a status and the members of the JSON body that the
\* calendar reads
CalNoResp == [kind |-> "none", status |-> 0, body |-> [_embedded |-> "absent", embedded |-> "absent", events |-> <<>>]]

\* an EventsCalendar of which no method has been called
CalendarIdle ==
  /\ ticketmaster_api_key = NoKey /\ eventbrite_api_key = NoKey
  /\ calendar_pc = "idle"
  /\ calendar_response = CalNoResp
  /\ calendar_fetched = <<>> /\ calendar_all_events = <<>> /\ calendar_events = <<>>

\* the call of aggregate_events in one of the worlds
StartIn(worlds) ==
  /\ world \in worlds
  /\ tm_key \in (IF world = "keys" THEN {NoKey, TMCallerKey} ELSE {NoKey})
  /\ eb_key \in (IF world = "keys" THEN {NoKey, EBCallerKey} ELSE {NoKey})
  /\ requests = <<>>
  /\ pc = "geocode"
  /\ zip_code \in (IF world = "pipeline" THEN ZipCodes ELSE ZipCodes \ {<<>>})
  /\ radius_miles = Radius
  /\ coords = NoCoords
  /\ tm = <<>> /\ eb = <<>> /\ result = <<>> /\ escaped = "" /\ geo = ""
  /\ IdleFrames
  /\ CalendarIdle

Init == StartIn({"pipeline"})

(***************************************************************************)
(* aggregate_events                                                        *)
(***************************************************************************)
\* coords = geocode_zip(zip_code); if not coords: return []
Geocode ==
  /\ pc = "geocode"
  /\ requests' = Append(requests, Req("geo", 0, NoKey))
  /\ \E g \in GeoAnswers :
       LET o == geocode_zip(g)
       IN /\ geo' = g.kind
          /\ IF o.tag = "raise"
               THEN /\ escaped' = o.exc
                    /\ pc' = "done"
                    /\ UNCHANGED coords
               ELSE /\ coords' = o.out
                    /\ pc' = IF o.out.found THEN "tm_first" ELSE "done"
                    /\ UNCHANGED escaped
  /\ UNCHANGED <<calVars, world, tm_key, eb_key, zip_code, radius_miles, tm, eb, result>>
  /\ UNCHANGED <<tmFrame, tmGhost, ebFrame, ebGhost>>

\* fetch_ticketmaster_events up to the submission of the later pages
TMFirstPage ==
  /\ pc = "tm_first"
  /\ requests' = Append(requests, Req("tm", 0, ResolveKey(tm_key, DEFAULT_TM_API_KEY)))
  /\ \E resp \in TMFirstAnswers :
       LET inner == TMFirst(resp, coords.lat, coords.lon)
           o == TMExcept(inner)
       IN /\ tmResp0' = resp
          /\ tmStatus0' = resp.status
          /\ tmExc' = inner.exc
          /\ CASE o.tag = "continue" ->
                    /\ tmOut' = o.out
                    /\ total_pages' = o.total
                    /\ futures' = [p \in SubmittedPages(o.total) |-> PendingFuture]
                    /\ pc' = "tm_pool"
                    /\ UNCHANGED <<tm, tmEnd, escaped>>
               [] o.tag = "return" ->
                    /\ tm' = o.out
                    /\ tmEnd' = "returned"
                    /\ pc' = "eb_first"
                    /\ UNCHANGED <<tmOut, total_pages, futures, escaped>>
               [] OTHER ->
                    /\ escaped' = o.exc
                    /\ tmEnd' = "raised"
                    /\ pc' = "done"
                    /\ UNCHANGED <<tmOut, total_pages, futures, tm>>
  /\ UNCHANGED <<calVars, world, tm_key, eb_key, zip_code, radius_miles, coords, eb, result, geo>>
  /\ UNCHANGED <<ebFrame, ebGhost>>

Running == {p \in DOMAIN futures : futures[p].state = "running"}

\* a worker of the pool takes the next queued page and issues its request
TMWorkerStart(p) ==
  /\ pc = "tm_pool"
  /\ futures[p].state = "pending"
  /\ \A q \in DOMAIN futures : q < p => futures[q].state # "pending"
  /\ Cardinality(Running) < MaxWorkers(total_pages)
  /\ futures' = [futures EXCEPT ![p].state = "running"]
  /\ requests' = Append(requests, Req("tm", p, ResolveKey(tm_key, DEFAULT_TM_API_KEY)))
  /\ UNCHANGED <<calVars, world, tm_key, eb_key, pc, aggVars, tmResp0, tmOut, total_pages, tmGhost, ebFrame, ebGhost>>

\* the request of page p is answered and fetch_page(p) ends
TMWorkerFinish(p) ==
  /\ pc = "tm_pool"
  /\ futures[p].state = "running"
  /\ \E resp \in TMPageAnswers :
       futures' = [futures EXCEPT ![p] = Future("done", resp, fetch_page(resp))]
  /\ UNCHANGED <<calVars, world, tm_key, eb_key, requests, pc, aggVars, tmResp0, tmOut, total_pages, tmGhost, ebFrame, ebGhost>>

\* as_completed yields the future of page p; the calling thread handles it
TMConsume(p) ==
  /\ pc = "tm_pool"
  /\ futures[p].state = "done"
  /\ tmOut' = TMConsumeFuture(tmOut, futures[p], coords.lat, coords.lon)
  /\ futures' = [futures EXCEPT ![p].state = "consumed"]
  /\ UNCHANGED <<calVars, world, tm_key, eb_key, requests, pc, aggVars, tmResp0, total_pages, tmGhost, ebFrame, ebGhost>>

\* the loop over as_completed ends, the pool shuts down: return out
TMReturn ==
  /\ pc = "tm_pool"
  /\ \A p \in DOMAIN futures : futures[p].state = "consumed"
  /\ tm' = tmOut
  /\ tmEnd' = "returned"
  /\ pc' = "eb_first"
  /\ UNCHANGED <<calVars, world, tm_key, eb_key, requests, zip_code, radius_miles, coords, eb, result, escaped, geo>>
  /\ UNCHANGED <<tmFrame, tmExc, tmStatus0, ebFrame, ebGhost>>

\* the end of the Eventbrite fetch with outcome o of its try block
EBEnd(inner) ==
  LET o == EBExcept(inner)
  IN /\ ebExc' = inner.exc
     /\ CASE o.tag = "continue" ->
               /\ ebOut' = o.out
               /\ pc' = "eb_pages"
               /\ UNCHANGED <<eb, ebEnd, escaped>>
          [] o.tag = "return" ->
               /\ eb' = o.out
               /\ ebOut' = IF inner.tag = "return" THEN o.out ELSE ebOut
               /\ ebEnd' = "returned"
               /\ pc' = "aggregate"
               /\ UNCHANGED escaped
          [] OTHER ->
               /\ escaped' = o.exc
               /\ ebEnd' = "raised"
               /\ pc' = "done"
               /\ UNCHANGED <<eb, ebOut>>

\* the requests of the log that did not go to the service
RequestsNotTo(to) == SelectSeq(requests, LAMBDA r : r.to # to)

\* fetch_eventbrite_events up to the loop over the later pages; the frame of
\* the finished Ticketmaster call is gone
EBFirstPage ==
  /\ pc = "eb_first"
  /\ tmResp0' = NoResp /\ tmOut' = <<>> /\ total_pages' = 1 /\ futures' = <<>>
  /\ requests' = Append(RequestsNotTo("tm"),
                       Req("eb", 1, ResolveKey(EBApiKeyArgument, DEFAULT_EB_API_KEY)))
  /\ \E resp \in EBFirstAnswers :
       LET inner == EBFirst(resp, coords.lat, coords.lon)
       IN /\ ebResp0' = resp
          /\ ebStatus0' = resp.status
          /\ page_count' = IF inner.tag = "continue" THEN inner.total ELSE page_count
          /\ EBEnd(inner)
  /\ UNCHANGED <<calVars, world, tm_key, eb_key, zip_code, radius_miles, coords, tm, result, geo, tmGhost, ebLog>>

\* for p in range(2, page_count + 1): the request of page p is issued
EBRequestPage ==
  /\ pc = "eb_pages"
  /\ pc' = "eb_wait"
  /\ requests' = Append(requests, Req("eb", Len(ebLog) + 2,
                                     ResolveKey(EBApiKeyArgument, DEFAULT_EB_API_KEY)))
  /\ UNCHANGED <<calVars, world, tm_key, eb_key, aggVars, tmFrame, tmGhost, ebFrame, ebGhost>>

\* the request of page p is answered: the rest of the iteration
EBNextPage ==
  /\ pc = "eb_wait"
  /\ \E resp \in EBPageAnswers :
       LET p == Len(ebLog) + 2
           inner == EBPage(resp, ebOut, p, page_count, coords.lat, coords.lon)
       IN /\ ebLog' = Append(ebLog, resp)
          /\ EBEnd(inner)
  /\ UNCHANGED <<calVars, world, tm_key, eb_key, requests, zip_code, radius_miles, coords, tm, result, geo>>
  /\ UNCHANGED <<tmFrame, tmGhost, ebResp0, page_count, ebStatus0>>

\* all_events = tm + eb; the dedup loop; return sorted(uniq, ...)
Aggregate ==
  /\ pc = "aggregate"
  /\ LET uniq == Dedup(AllEvents(tm, eb))
     IN IF Comparable(uniq)
          THEN result' = SortByDate(uniq) /\ UNCHANGED escaped
          ELSE escaped' = "TypeError" /\ UNCHANGED result
  /\ pc' = "done"
  /\ UNCHANGED <<calVars, world, tm_key, eb_key, requests, zip_code, radius_miles, coords, tm, eb, geo>>
  /\ UNCHANGED <<tmFrame, tmGhost, ebFrame, ebGhost>>

Next ==
  \/ Geocode
  \/ TMFirstPage
  \/ \E p \in DOMAIN futures : TMWorkerStart(p)
  \/ \E p \in DOMAIN futures : TMWorkerFinish(p)
  \/ \E p \in DOMAIN futures : TMConsume(p)
  \/ TMReturn
  \/ EBFirstPage
  \/ EBRequestPage
  \/ EBNextPage
  \/ Aggregate

Spec == Init /\ [][Next]_vars

(***************************************************************************)
(* The pipeline with providers that never fail and whose items differ in   *)
(* their start timestamp                                                   *)
(***************************************************************************)
InitDates == StartIn({"tm_dates", "eb_dates"})

SpecDates == InitDates /\ [][Next]_vars

(***************************************************************************)
(* The pipeline with a Ticketmaster fetch of several later pages, which    *)
(* complete in any order, and one of more later pages than workers         *)
(***************************************************************************)
InitPool == StartIn({"tm_pages", "tm_wide"})

SpecPool == InitPool /\ [][Next]_vars

(***************************************************************************)
(* The pipeline with providers that never fail and whose items differ in   *)
(* their venue, url and id                                                 *)
(***************************************************************************)
InitFields == StartIn({"tm_fields", "eb_fields"})

SpecFields == InitFields /\ [][Next]_vars

(***************************************************************************)
(* The pipeline with providers that never fail, for a caller with or       *)
(* without credentials of their own                                        *)
(***************************************************************************)
InitKeys == StartIn({"keys"})

SpecKeys == InitKeys /\ [][Next]_vars


(***************************************************************************)
(* Aggregation alone: aggregate_events from the point where both provider  *)
(* fetches have returned, for any two lists of Events                      *)
(***************************************************************************)
TitleB == <<"B">>
LongPrefix == [i \in 1..KeyLen |-> "x"]
LongA == <<" ">> \o LongPrefix \o <<"a">>
LongB == LongPrefix \o <<"b">>

\* Events a provider fetch may return
AggPool(source) ==
  { Event(TitleA, Naive(TicksPerDay), 0, 0, NoUrl, source),
    Event(TitleA2, Naive(TicksPerDay + 1), FarLat, 0, NoUrl, source),
    Event(TitleB, Naive(TicksPerDay), 0, 0, NoUrl, source),
    Event(TitleB, Naive(2 * TicksPerDay), 0, 0, NoUrl, source),
    Event(LongA, Naive(TicksPerDay + 1), 0, 0, NoUrl, source),
    Event(LongB, Naive(TicksPerDay), FarLat, 0, NoUrl, source) }

InitAgg ==
  /\ world = "pipeline"
  /\ tm_key = NoKey /\ eb_key = NoKey
  /\ requests = <<Req("geo", 0, NoKey), Req("eb", 1, DEFAULT_EB_API_KEY)>>
  /\ pc = "aggregate"
  /\ zip_code \in ZipCodes \ {<<>>}
  /\ radius_miles = Radius
  /\ coords = Coords(0, 0)
  /\ geo = "loc"
  /\ tm \in SeqUpTo(AggPool("Ticketmaster"), MaxLen)
  /\ eb \in SeqUpTo(AggPool("Eventbrite"), MaxLen - Len(tm))
  /\ result = <<>> /\ escaped = ""
  /\ tmResp0 = NoResp /\ tmOut = <<>> /\ total_pages = 1 /\ futures = <<>>
  /\ tmEnd = "returned" /\ tmExc = "" /\ tmStatus0 = 200
  /\ ebResp0 = NoResp /\ ebOut = <<>> /\ page_count = 1 /\ ebLog = <<>>
  /\ ebEnd = "returned" /\ ebExc = "" /\ ebStatus0 = 200
  /\ CalendarIdle

NextAgg == Aggregate

SpecAgg == InitAgg /\ [][NextAgg]_vars

(***************************************************************************)
(* EventsCalendar (app.py): fetch_all_events and the two fetches it calls  *)
(***************************************************************************)
RADIUS_MILES == 5

\* miles in one degree of latitude; positions are kept in miles
MilesPerDegree == 69

\* (42.4825, -70.8800), in miles north and east of (0, 0)
SWAMPSCOTT_COORDS == <<42 * MilesPerDegree, 0 - 70 * MilesPerDegree>>

\* geodesic distance, converted from kilometres to miles; the venues of the
\* model lie on the meridian or on the parallel of the other point
calculate_distance(lat1, lon1, lat2, lon2) == Abs(lat1 - lat2) + Abs(lon1 - lon2)

\* a key that a JSON object does not have
Absent == "(absent)"

\* dict.get(key, default)
Get(value, default) == IF value = Absent THEN default ELSE value

\* the venue of an item: kind "ok" has a location with numeric coordinates,
\* "novenues" is an item without venues (Ticketmaster) or without the venue
\* key (Eventbrite), "badlat" has a latitude that float() rejects, "null" is
\* a venue that is null
CalVenue(kind, name, lat, lon) == [kind |-> kind, name |-> name, lat |-> lat, lon |-> lon]

\* an item of a Ticketmaster body: name, whether dates.start is there, its
\* dateTime and localDate, the first venue, url
CalTMItem(name, dated, dateTime, localDate, venue, url) ==
  [name |-> name, dated |-> dated, dateTime |-> dateTime, localDate |-> localDate,
   venue |-> venue, url |-> url]

\* an item of an Eventbrite body: name.text, start.local, venue, url
CalEBItem(text, local, venue, url) ==
  [text |-> text, local |-> local, venue |-> venue, url |-> url]

\* the dict the two parsers return; distance is round(distance, 2), which
\* leaves the whole miles of the model as they are
CalDict(name, date, location, lat, lon, distance, url, source) ==
  [name |-> name, date |-> date, location |-> location, latitude |-> lat,
   longitude |-> lon, distance |-> distance, url |-> url, source |-> source]

\* None, as returned by the parsers
NoDict == CalDict("", "", "", 0, 0, 0, "", "None")

\* the part of both parsers after the venue was read: float() of the
\* coordinates (0 by default), the distance, the radius filter, the dict
CalLocate(name, date, venue, url, source) ==
  IF venue.kind \in {"badlat", "null"} THEN NoDict
  ELSE LET location == IF venue.kind = "ok" THEN Get(venue.name, "Unknown Venue")
                       ELSE "Unknown Venue"
           lat == IF venue.kind = "ok" THEN venue.lat ELSE 0
           lon == IF venue.kind = "ok" THEN venue.lon ELSE 0
           distance == calculate_distance(SWAMPSCOTT_COORDS[1], SWAMPSCOTT_COORDS[2], lat, lon)
       IN IF distance > RADIUS_MILES THEN NoDict
          ELSE CalDict(name, date, location, lat, lon, distance, url, source)

_parse_ticketmaster_event(event) ==
  IF ~event.dated THEN NoDict
  ELSE CalLocate(Get(event.name, "Unknown Event"),
                 Get(event.dateTime, Get(event.localDate, "")),
                 event.venue, Get(event.url, ""), "Ticketmaster")

_parse_eventbrite_event(event) ==
  CalLocate(Get(event.text, "Unknown Event"), Get(event.local, ""),
            event.venue, Get(event.url, ""), "Eventbrite")

\* for event in ...: event_dict = parse(event); if event_dict: append
RECURSIVE CalParseAll(_, _)
CalParseAll(items, source) ==
  IF items = <<>> THEN <<>>
  ELSE LET d == IF source = "Ticketmaster" THEN _parse_ticketmaster_event(Head(items))
                ELSE _parse_eventbrite_event(Head(items))
       IN (IF d = NoDict THEN <<>> ELSE <<d>>) \o CalParseAll(Tail(items), source)

\* a response: kind "exc" is a request that raised, "badjson" a body that
\* is not JSON; of the body, whether it has the members _embedded and
\* embedded and whether these hold an events list ("absent", "noevents",
\* "events"), and the events list
CalResp(kind, status, _embedded, embedded, events) ==
  [kind |-> kind, status |-> status,
   body |-> [_embedded |-> _embedded, embedded |-> embedded, events |-> events]]

\* fetch_ticketmaster_events once the key was found: every exception,
\* raise_for_status and the KeyError of data['embedded'] included, is caught
\* and the events appended so far are returned
CalFetchTicketmaster(response) ==
  IF response.kind # "ok" \/ response.status >= 400 THEN <<>>
  \* '_embedded' in data is false
  ELSE IF response.body._embedded = "absent" THEN <<>>
  \* data['embedded'] raises KeyError
  ELSE IF response.body.embedded = "absent" THEN <<>>
  \* 'events' in data['embedded'] is false
  ELSE IF response.body.embedded = "noevents" THEN <<>>
  \* data['_embedded']['events'] raises KeyError
  ELSE IF response.body._embedded = "noevents" THEN <<>>
  ELSE CalParseAll(response.body.events, "Ticketmaster")

\* fetch_eventbrite_events once the key was found: data.get('events', [])
CalFetchEventbrite(response) ==
  IF response.kind # "ok" \/ response.status >= 400 THEN <<>>
  ELSE CalParseAll(response.body.events, "Eventbrite")

\* name + date, the key of unique_events
CalKey(event) == event.name \o event.date

\* the dict comprehension: a key keeps the place of its first event and the
\* value of its last
RECURSIVE unique_events(_, _)
unique_events(all_events, acc) ==
  IF all_events = <<>> THEN acc
  ELSE LET e == Head(all_events)
           hit == {i \in 1..Len(acc) : CalKey(acc[i]) = CalKey(e)}
       IN unique_events(Tail(all_events),
                        IF hit = {} THEN Append(acc, e)
                        ELSE [i \in 1..Len(acc) |-> IF i \in hit THEN e ELSE acc[i]])

\* the date strings of the model, in the order of Python's string comparison
CalDates == <<"", "2026-01-01", "2026-01-01T10:00:00", "2026-01-02T20:00:00Z">>
CalDateRank(date) == CHOOSE i \in 1..Len(CalDates) : CalDates[i] = date

\* sorted(..., key=lambda x: x['date']): stable
RECURSIVE CalInsert(_, _)
CalInsert(sorted, e) ==
  IF sorted = <<>> THEN <<e>>
  ELSE IF CalDateRank(e.date) < CalDateRank(Head(sorted).date) THEN <<e>> \o sorted
  ELSE <<Head(sorted)>> \o CalInsert(Tail(sorted), e)

RECURSIVE CalSortLoop(_, _)
CalSortLoop(rest, acc) ==
  IF rest = <<>> THEN acc ELSE CalSortLoop(Tail(rest), CalInsert(acc, Head(rest)))

CalSorted(values) == CalSortLoop(values, <<>>)

\* the keys the environment of the calendar may hold
CalendarTMKey == "TICKETMASTER_API_KEY of the environment"
CalendarEBKey == "EVENTBRITE_API_KEY of the environment"

\* venues at the centre, on the rim of the radius, a mile outside it
CalNear == CalVenue("ok", "Town Hall", SWAMPSCOTT_COORDS[1], SWAMPSCOTT_COORDS[2])
CalRim == CalVenue("ok", Absent, SWAMPSCOTT_COORDS[1] + RADIUS_MILES, SWAMPSCOTT_COORDS[2])
CalOutside == CalVenue("ok", "Pier", SWAMPSCOTT_COORDS[1], SWAMPSCOTT_COORDS[2] - RADIUS_MILES - 1)
CalNoVenue == CalVenue("novenues", Absent, 0, 0)

\* the items Ticketmaster may list
CalTMPool ==
  { CalTMItem("Gala", TRUE, "2026-01-02T20:00:00Z", "2026-01-02", CalNear, "https://tm/gala"),
    CalTMItem("Gala", TRUE, "2026-01-02T20:00:00Z", Absent, CalRim, Absent),
    CalTMItem("Fair", TRUE, Absent, "2026-01-01", CalRim, "https://tm/fair"),
    CalTMItem("Expo", TRUE, Absent, "2026-01-01", CalOutside, Absent),
    CalTMItem(Absent, TRUE, Absent, Absent, CalNoVenue, Absent),
    CalTMItem("Show", FALSE, Absent, Absent, CalNear, Absent),
    CalTMItem("Play", TRUE, Absent, "2026-01-01", CalVenue("badlat", "Barn", 0, 0), Absent) }

\* the items Eventbrite may list
CalEBPool ==
  { CalEBItem("Market", "2026-01-01T10:00:00", CalNear, "https://eb/market"),
    CalEBItem("Fair", "2026-01-01", CalNear, Absent),
    CalEBItem("Walk", "2026-01-01T10:00:00", CalOutside, Absent),
    CalEBItem(Absent, Absent, CalNoVenue, Absent),
    CalEBItem("Talk", "2026-01-01T10:00:00", CalVenue("null", Absent, 0, 0), Absent) }

CalFailures ==
  {CalResp("exc", 0, "absent", "absent", <<>>), CalResp("badjson", 200, "absent", "absent", <<>>)}
    \cup {CalResp("ok", st, "absent", "absent", <<>>) : st \in ErrorStatuses}

\* what Ticketmaster may answer: a failure, a body without _embedded, a
\* body whose _embedded lists events, with or without a member embedded
CalTMResponses ==
  CalFailures
    \cup {CalResp("ok", 200, "absent", "absent", <<>>),
          CalResp("ok", 200, "noevents", "absent", <<>>),
          CalResp("ok", 200, "noevents", "events", <<>>),
          CalResp("ok", 200, "events", "noevents", <<>>)}
    \cup {CalResp("ok", 200, "events", e, items) :
            e \in {"absent", "events"}, items \in SeqUpTo(CalTMPool, MaxItems + 1)}

\* what Eventbrite may answer
CalEBResponses ==
  CalFailures
    \cup {CalResp("ok", 200, "absent", "absent", items) : items \in SeqUpTo(CalEBPool, MaxItems)}

\* all_events.extend(self.fetch_ticketmaster_events())
FetchAllTicketmaster ==
  /\ calendar_pc = "fetch_all_events"
  /\ IF ticketmaster_api_key = NoKey
       THEN /\ calendar_response' = CalNoResp
            /\ calendar_fetched' = <<>>
       ELSE \E response \in CalTMResponses :
              /\ calendar_response' = response
              /\ calendar_fetched' = CalFetchTicketmaster(response)
  /\ calendar_all_events' = calendar_all_events \o calendar_fetched'
  /\ calendar_pc' = "eventbrite"
  /\ UNCHANGED <<serviceVars, ticketmaster_api_key, eventbrite_api_key, calendar_events>>

\* all_events.extend(self.fetch_eventbrite_events()); unique_events;
\* self.events = sorted(...); return
FetchAllEventbrite ==
  /\ calendar_pc = "eventbrite"
  /\ \E fetched \in (IF eventbrite_api_key = NoKey THEN {<<>>}
                     ELSE {CalFetchEventbrite(response) : response \in CalEBResponses}) :
       /\ calendar_all_events' = calendar_all_events \o fetched
       /\ calendar_events' = CalSorted(unique_events(calendar_all_events', <<>>))
  /\ calendar_pc' = "done"
  /\ UNCHANGED <<serviceVars, ticketmaster_api_key, eventbrite_api_key,
                 calendar_response, calendar_fetched>>

\* EventsCalendar() reads the keys from the environment; fetch_all_events
\* is called on it
InitCalendar ==
  /\ world = "calendar"
  /\ tm_key = NoKey /\ eb_key = NoKey
  /\ requests = <<>>
  /\ pc = "idle"
  /\ zip_code = <<>>
  /\ radius_miles = Radius
  /\ coords = NoCoords
  /\ tm = <<>> /\ eb = <<>> /\ result = <<>> /\ escaped = "" /\ geo = ""
  /\ IdleFrames
  /\ ticketmaster_api_key \in {NoKey, CalendarTMKey}
  /\ eventbrite_api_key \in {NoKey, CalendarEBKey}
  /\ calendar_pc = "fetch_all_events"
  /\ calendar_response = CalNoResp
  /\ calendar_fetched = <<>> /\ calendar_all_events = <<>> /\ calendar_events = <<>>

NextCalendar ==
  \/ FetchAllTicketmaster
  \/ FetchAllEventbrite

SpecCalendar == InitCalendar /\ [][NextCalendar]_vars

(***************************************************************************)
(* Properties                                                              *)
(***************************************************************************)
Range(f) == {f[i] : i \in DOMAIN f}

\* aggregate_events has returned a list
Returned == pc = "done" /\ escaped = ""

\* the dedup key as the specification words it: the title without its
\* surrounding whitespace, lower-cased, cut to its first 40 characters, and
\* the calendar day of the timestamp
KeyTitle(title) ==
  LET first == {i \in 1..Len(title) : title[i] # " "}
  IN IF first = {} THEN <<>>
     ELSE LET lo == CHOOSE i \in first : \A j \in 1..(i - 1) : title[j] = " "
              hi == CHOOSE i \in first : \A j \in (i + 1)..Len(title) : title[j] = " "
              n == IF hi - lo + 1 > 40 THEN 40 ELSE hi - lo + 1
          IN [i \in 1..n |-> LowerChar(title[lo + i - 1])]

KeyOf(e) == <<KeyTitle(e.title), e.date \div TicksPerDay>>
KeysOf(list) == [i \in 1..Len(list) |-> KeyOf(list[i])]

\* the merged list: the Ticketmaster events, then the Eventbrite events
Merged == tm \o eb

\* C1: when geocode_zip does not resolve the postal code (exception in the
\* lookup, no match, also for an empty postal code), aggregate_events
\* returns the empty list and no exception leaves it.
C1_GeocodeFailureReturnsEmpty ==
  (pc = "done" /\ geo \in {"exc", "nomatch"}) =>
     (result = <<>> /\ escaped = "" /\ tmEnd = "" /\ ebEnd = "")

C1_Witness ==
  pc = "done" /\ geo = "exc" /\ zip_code = <<>> /\ result = <<>> /\ escaped = ""

\* C2: the returned list never holds two events with equal dedup keys,
\* whatever the two provider fetches returned.
C2_NoTwoEventsShareKey ==
  Returned =>
    LET keys == KeysOf(result)
    IN \A i, j \in 1..Len(result) : i # j => keys[i] # keys[j]

C2_Witness ==
  /\ Returned
  /\ \E i \in 1..Len(tm) : \E j \in 1..Len(eb) :
       /\ KeyOf(tm[i]) = KeyOf(eb[j])
       /\ tm[i].date # eb[j].date
       /\ tm[i].latitude # eb[j].latitude
       /\ tm[i].title # eb[j].title
       /\ Len(tm[i].title) > KeyLen
  /\ Len(result) < Len(Merged)

\* C3: for every dedup key of the merged list the returned event with that
\* key is the first event of the merged list having it; an Eventbrite event
\* is returned only if no Ticketmaster event has its key.
C3_FirstSeenWins ==
  Returned =>
    LET mk == KeysOf(Merged)
        rk == KeysOf(result)
        IsFirst(i) == \A l \in 1..(i - 1) : mk[l] # mk[i]
    IN /\ \A i \in 1..Len(Merged) :
            IsFirst(i) =>
              /\ \E r \in 1..Len(result) : result[r] = Merged[i]
              /\ \A r \in 1..Len(result) : rk[r] = mk[i] => result[r] = Merged[i]
       /\ \A r \in 1..Len(result) :
            result[r].source = "Eventbrite" =>
              \A i \in 1..Len(tm) : mk[i] # rk[r]

C3_Witness ==
  /\ Returned
  /\ \E i \in 1..Len(tm) : \E j \in 1..Len(eb) :
       /\ KeyOf(tm[i]) = KeyOf(eb[j])
       /\ tm[i] \in Range(result)
       /\ eb[j] \notin Range(result)
  /\ \E i, j \in 1..Len(eb) :
       i < j /\ KeyOf(eb[i]) = KeyOf(eb[j]) /\ eb[i] # eb[j] /\ eb[i] \in Range(result)

\* position of the first occurrence of e in the merged list
MergedPos(e) == CHOOSE i \in 1..Len(Merged) :
                  Merged[i] = e /\ \A k \in 1..(i - 1) : Merged[k] # e

\* C4: the returned list is non-decreasing by timestamp, and two returned
\* events with the same timestamp are in the order they have in the merged
\* list.
C4_SortedAndStable ==
  Returned =>
    \A i, j \in 1..Len(result) :
      i < j =>
        /\ result[i].date <= result[j].date
        /\ result[i].date = result[j].date =>
             MergedPos(result[i]) < MergedPos(result[j])

C4_Witness ==
  /\ Returned
  /\ \E i, j \in 1..Len(result) :
       /\ i < j /\ result[i].date = result[j].date
       /\ result[i].source = "Eventbrite" /\ result[j].source = "Eventbrite"
  /\ \E i, j \in 1..Len(result) :
       i < j /\ MergedPos(result[i]) > MergedPos(result[j])


\* C5: no returned event has a venue farther from the resolved centre than
\* radius_miles.
C5_OutsideRadiusExcluded ==
  Returned =>
    \A r \in 1..Len(result) :
      haversine_miles(coords.lat, coords.lon,
                      result[r].latitude, result[r].longitude) <= radius_miles

\* a response whose body the client reads: status 200 with a JSON document
IsOk(resp) == resp.kind = "http" /\ resp.status = 200 /\ resp.json = "ok"

\* the Events the items of a page normalise to
TMPageEvents(resp) ==
  {TMNormalize(resp.items[i], coords.lat, coords.lon).ev :
     i \in {k \in 1..Len(resp.items) :
              TMNormalize(resp.items[k], coords.lat, coords.lon).tag = "event"}}

EBPageEvents(resp) ==
  {EBNormalize(resp.items[i], coords.lat, coords.lon).ev :
     i \in {k \in 1..Len(resp.items) :
              EBNormalize(resp.items[k], coords.lat, coords.lon).tag = "event"}}

\* the Events parsed from the responses the Ticketmaster fetch received
TMParsed ==
  (IF IsOk(tmResp0) THEN TMPageEvents(tmResp0) ELSE {})
    \cup UNION {IF IsOk(futures[p].resp) THEN TMPageEvents(futures[p].resp) ELSE {} :
                  p \in DOMAIN futures}

\* the Events parsed from the responses the Eventbrite fetch received
EBParsed ==
  (IF IsOk(ebResp0) THEN EBPageEvents(ebResp0) ELSE {})
    \cup UNION {IF IsOk(ebLog[i]) THEN EBPageEvents(ebLog[i]) ELSE {} :
                  i \in DOMAIN ebLog}

\* the Ticketmaster fetch has just returned, its frame is still there
TMJustReturned == pc = "eb_first" /\ tmEnd = "returned"
\* the Eventbrite fetch has returned
EBJustReturned == pc \in {"aggregate", "done"} /\ ebEnd = "returned" /\ ebResp0 # NoResp

\* C6: neither provider fetch raises to its caller, whatever the status,
\* exception or body of each exchange; the list it returns holds only
\* Events parsed from the responses it received.
C6_FetchesNeverRaise ==
  /\ tmEnd # "raised"
  /\ ebEnd # "raised"
  /\ pc \in {"eb_first", "eb_pages", "eb_wait", "aggregate"} => tmEnd = "returned"
  /\ pc = "aggregate" => ebEnd = "returned"
  /\ TMJustReturned => Range(tm) \subseteq TMParsed
  /\ EBJustReturned => Range(eb) \subseteq EBParsed

C6_Witness ==
  /\ pc = "done" /\ escaped = ""
  /\ tmEnd = "returned" /\ tmExc = "RequestException"
  /\ ebEnd = "returned" /\ ebExc = "JSONDecodeError" /\ ebLog # <<>>

\* C7: an authorization failure (401 or 403) on the first page makes the
\* provider fetch raise the failure to its caller instead of returning a
\* list.
C7_AuthFailureSurfaced ==
  /\ (tmEnd # "" /\ tmStatus0 \in {401, 403}) => tmEnd = "raised"
  /\ (ebEnd # "" /\ ebStatus0 \in {401, 403}) => ebEnd = "raised"

\* C8: a first page answered with a status other than 200 ends the fetch of
\* either provider with no events and without a request for another page.
C8_FirstPageErrorStatusYieldsNothing ==
  /\ (tmStatus0 \notin {0, 200}) =>
        /\ tmEnd = "returned" /\ tm = <<>>
        /\ futures = <<>> /\ pc # "tm_pool"
  /\ (ebStatus0 \notin {0, 200}) =>
        /\ ebEnd = "returned" /\ eb = <<>>
        /\ ebLog = <<>> /\ pc \notin {"eb_pages", "eb_wait"}

C8_Witness ==
  /\ pc = "done" /\ tmStatus0 = 401 /\ ebStatus0 = 403
  /\ tm = <<>> /\ eb = <<>> /\ result = <<>>

\* the first page of the provider failed: no answer, a status other than
\* 200, or a body that made the fetch give up
TMFailed == tmEnd # "" /\ (tmStatus0 # 200 \/ tmExc # "")
EBFailed == ebEnd # "" /\ (ebStatus0 # 200 \/ ebExc # "")

\* the result is the deduplicated, sorted list of the events of list alone
OnlyFrom(list) ==
  /\ result = SortByDate(Dedup(list))
  /\ Range(result) \subseteq Range(list)
  /\ \A j \in 1..Len(list) : \E r \in 1..Len(result) : KeyOf(result[r]) = KeyOf(list[j])

\* C9: with the postal code resolved, the failure of one provider leaves
\* the events of the other in the result, and nothing is raised.
C9_OneProviderFailureKeepsOther ==
  (pc = "done" /\ geo = "loc") =>
     /\ escaped = ""
     /\ TMFailed => OnlyFrom(eb)
     /\ EBFailed => OnlyFrom(tm)

C9_Witness ==
  /\ pc = "done" /\ geo = "loc" /\ escaped = ""
  /\ TMFailed /\ tmStatus0 = 403 /\ ~EBFailed
  /\ Len(eb) > 1 /\ result # <<>>

\* C10: in both clients a failure on a page after the first costs only that
\* page: every page is requested, and the events of the first page and of
\* every page that was fetched are in the returned list.
C10_LaterPageFailureIsLocal ==
  /\ (TMJustReturned /\ total_pages > 1) =>
        /\ \A p \in DOMAIN futures : futures[p].state = "consumed"
        /\ TMParsed \subseteq Range(tm)
  /\ (EBJustReturned /\ page_count > 1) =>
        /\ Len(ebLog) = page_count - 1
        /\ EBParsed \subseteq Range(eb)

\* an item whose start timestamp is an ISO-8601 text or starts with a date
HasDate(item) == item.dt.kind \in {"iso_utc", "iso_naive", "date_prefix"}
DatedCount(items) == Cardinality({i \in 1..Len(items) : HasDate(items[i])})
DatedNames(items) == {items[i].name : i \in {k \in 1..Len(items) : HasDate(items[k])}}
Titles(list) == {list[i].title : i \in 1..Len(list)}

RECURSIVE SumSeq(_)
SumSeq(ns) == IF ns = <<>> THEN 0 ELSE Head(ns) + SumSeq(Tail(ns))

\* an item whose venue the Ticketmaster loop reads without an exception
VenueReadable(item) == item.venue.kind \in {"ok", "nolocation", "novenue"}
AllReadable(items) == \A i \in 1..Len(items) : VenueReadable(items[i])

\* every request of the Ticketmaster fetch was answered with a page whose
\* items have readable venues
TMAllPagesRead ==
  /\ IsOk(tmResp0) /\ tmExc = "" /\ AllReadable(tmResp0.items)
  /\ \A p \in DOMAIN futures :
       IsOk(futures[p].resp) /\ AllReadable(futures[p].resp.items)

\* every request of the Eventbrite fetch was answered with a page
EBAllPagesRead ==
  /\ IsOk(ebResp0) /\ ebExc = ""
  /\ \A i \in DOMAIN ebLog : IsOk(ebLog[i])

\* an Event has a date
ValidDate(e) == e.date >= 0

TMInProgress == pc \in {"tm_first", "tm_pool"}

\* C12: the two provider fetches run concurrently: the Eventbrite fetch does
\* not wait for the Ticketmaster fetch, so while the Ticketmaster fetch has
\* not returned the first Eventbrite request can be issued.
C12_ProvidersRunConcurrently == TMInProgress => ENABLED EBFirstPage

\* number of Eventbrite page requests in flight
EBInFlight == IF pc = "eb_wait" THEN 1 ELSE 0

\* C13: in a provider fetch the pages after the first are requested
\* concurrently by a pool of bounded size: at most 8 page requests of the
\* fetch are in flight, and a page that is still to be requested can be
\* requested as long as fewer than 8 are in flight, without waiting for the
\* answer to another page.
C13_PagesFetchedByBoundedPool ==
  /\ Cardinality(Running) <= PoolSize
  /\ EBInFlight <= PoolSize
  /\ \A p \in DOMAIN futures :
       ( /\ pc = "tm_pool" /\ futures[p].state = "pending"
         /\ \A q \in DOMAIN futures : q < p => futures[q].state # "pending"
         /\ Cardinality(Running) < PoolSize ) => ENABLED TMWorkerStart(p)
  /\ (pc = "eb_wait" /\ Len(ebLog) + 2 < page_count /\ EBInFlight < PoolSize)
        => ENABLED EBRequestPage

\* C14: no request is repeated: the geocoder is asked at most once, and each
\* page of a provider (0 .. totalPages - 1 of Ticketmaster, 1 .. page_count
\* of Eventbrite) is requested at most once, also after a failure.
C14_NoRequestIsRepeated ==
  /\ \A i, j \in 1..Len(requests) : i # j => requests[i] # requests[j]
  /\ \A i \in 1..Len(requests) :
       CASE requests[i].to = "tm" -> requests[i].page \in 0..(total_pages - 1)
         [] requests[i].to = "eb" -> requests[i].page \in 1..page_count
         [] OTHER -> requests[i].page = 0

C14_Witness ==
  /\ TMJustReturned
  /\ requests = <<Req("geo", 0, NoKey), Req("tm", 0, DEFAULT_TM_API_KEY),
                  Req("tm", 1, DEFAULT_TM_API_KEY)>>
  /\ futures[1].resp.kind = "exc"
  /\ tm # <<>>

\* C15: deduplication is idempotent: the dedup step applied to its own
\* output, and to the list aggregate_events returns, gives that list back,
\* element by element.
C15_DedupIsIdempotent ==
  Returned =>
    LET once == Dedup(Merged)
    IN /\ Dedup(once) = once
       /\ Dedup(result) = result

C15_Witness ==
  /\ Returned
  /\ Len(result) >= 2
  /\ Len(Dedup(Merged)) + 2 <= Len(Merged)
  /\ \E i, j, k \in 1..Len(Merged) :
       /\ i < j /\ j < k
       /\ KeyOf(Merged[i]) = KeyOf(Merged[j]) /\ KeyOf(Merged[j]) = KeyOf(Merged[k])
       /\ Merged[i] # Merged[k]

\* the local wall-clock reading of the start timestamp of an item with a date
LocalReading(item) ==
  CASE item.dt.kind = "iso_utc" -> item.dt.ts + TzShift
    [] item.dt.kind = "iso_naive" -> item.dt.ts
    [] OTHER -> (item.dt.ts \div TicksPerDay) * TicksPerDay

\* each item with a date has in list an Event with its local reading
LocalReadingsIn(items, list) ==
  \A i \in 1..Len(items) :
    HasDate(items[i]) =>
      \E k \in 1..Len(list) :
        list[k].title = items[i].name /\ list[k].date = LocalReading(items[i])

AllNaive(list) == \A k \in 1..Len(list) : list[k].tzinfo = ""

\* C16: every Event returned by a provider fetch and by aggregate_events has
\* a naive date: the local reading without zone of an aware timestamp, the
\* timestamp itself when it is naive; so the sort never fails on comparing
\* two dates.
C16_DatesAreNaiveLocal ==
  /\ AllNaive(tm) /\ AllNaive(eb) /\ AllNaive(result)
  /\ escaped # "TypeError"
  /\ (TMJustReturned /\ TMAllPagesRead) =>
        /\ LocalReadingsIn(tmResp0.items, tm)
        /\ \A p \in DOMAIN futures : LocalReadingsIn(futures[p].resp.items, tm)
  /\ (EBJustReturned /\ EBAllPagesRead) =>
        /\ LocalReadingsIn(ebResp0.items, eb)
        /\ \A i \in DOMAIN ebLog : LocalReadingsIn(ebLog[i].items, eb)

C16_Witness ==
  /\ Returned /\ EBAllPagesRead
  /\ \E i \in 1..Len(ebResp0.items) : \E k \in 1..Len(eb) :
       /\ ebResp0.items[i].dt.kind = "iso_utc"
       /\ eb[k].title = ebResp0.items[i].name
       /\ eb[k].date = ebResp0.items[i].dt.ts + TzShift
       /\ eb[k].tzinfo = ""
  /\ \E k \in 1..Len(tm) : tm[k].title = TitleA /\ tm[k].date = TicksPerDay
  /\ result # <<>>

\* pagination metadata without a usable page count: none, zero, no integer
NoPageCount(pages) ==
  pages.k \in {"absent", "bad"} \/ (pages.k = "int" /\ pages.n = 0)

\* C17: a first page whose pagination metadata has no page count, the count
\* 0 or a count that is no integer is the only page: the fetch returns the
\* events of that page and requests no other page.
C17_MissingPageCountMeansOnePage ==
  /\ (TMJustReturned /\ IsOk(tmResp0) /\ AllReadable(tmResp0.items)
        /\ NoPageCount(tmResp0.pages)) =>
        /\ Len(tm) = DatedCount(tmResp0.items)
        /\ Titles(tm) = DatedNames(tmResp0.items)
        /\ futures = <<>>
        /\ \A i \in 1..Len(requests) : requests[i].to = "tm" => requests[i].page = 0
  /\ (EBJustReturned /\ IsOk(ebResp0) /\ NoPageCount(ebResp0.pages)) =>
        /\ Len(eb) = DatedCount(ebResp0.items)
        /\ Titles(eb) = DatedNames(ebResp0.items)
        /\ ebLog = <<>>
        /\ \A i \in 1..Len(requests) : requests[i].to = "eb" => requests[i].page = 1

\* the items of a page that was fetched, none for a page that was not
Fetched(resp) == IF IsOk(resp) THEN resp.items ELSE <<>>

\* number of items of the page with a date and the name t
NameCount(items, t) ==
  Cardinality({i \in 1..Len(items) : HasDate(items[i]) /\ items[i].name = t})

\* number of events of the list with the title t
TitleCount(list, t) == Cardinality({k \in 1..Len(list) : list[k].title = t})

\* the names of the items of the fetched Ticketmaster pages
TMNames ==
  {tmResp0.items[i].name : i \in 1..Len(tmResp0.items)}
    \cup UNION {{Fetched(futures[p].resp)[i].name : i \in 1..Len(Fetched(futures[p].resp))} :
                  p \in DOMAIN futures}

\* C18: in whatever order the page requests of fetch_ticketmaster_events
\* complete, the list it returns holds every event of the first page and of
\* every fetched later page exactly once: as many events of a title as the
\* fetched pages have items of that name.
C18_EachParsedEventOnce ==
  (TMJustReturned /\ IsOk(tmResp0) /\ tmExc = "" /\ AllReadable(tmResp0.items)
     /\ \A p \in DOMAIN futures : AllReadable(Fetched(futures[p].resp))) =>
    \A t \in TMNames \cup Titles(tm) :
      TitleCount(tm, t) =
        NameCount(tmResp0.items, t)
          + SumSeq([p \in DOMAIN futures |-> NameCount(Fetched(futures[p].resp), t)])

C18_Witness ==
  /\ TMJustReturned /\ Len(futures) = 2
  /\ Len(tmResp0.items) = 1 /\ tmResp0.items[1].name = TitleA
  /\ IsOk(futures[1].resp) /\ Len(futures[1].resp.items) = 1
  /\ futures[1].resp.items[1].name = TitleA
  /\ IsOk(futures[2].resp) /\ Len(futures[2].resp.items) = 1
  /\ futures[2].resp.items[1].name = TitleA2
  /\ Len(tm) = 3 /\ tm[2].title = TitleA2 /\ tm[3].title = TitleA

\* an item whose venue, venue list or venue coordinates are absent, empty
\* or null
VenueOmitted(item) ==
  item.venue.kind \in {"novenue", "emptylist", "nolocation", "nulllat"}

\* each item of the page with a date and an omitted venue has in list an
\* Event at the centre of the search
CentredIn(items, list) ==
  \A i \in 1..Len(items) :
    (HasDate(items[i]) /\ VenueOmitted(items[i])) =>
      \E k \in 1..Len(list) :
        /\ list[k].title = items[i].name
        /\ list[k].latitude = coords.lat /\ list[k].longitude = coords.lon

\* C19: in both clients an item whose venue, venue list or venue
\* coordinates are omitted (absent, empty or null) still gives an Event,
\* with the coordinates of the search centre.
C19_OmittedVenueFallsBackToCentre ==
  /\ (TMJustReturned /\ IsOk(tmResp0) /\ \A p \in DOMAIN futures : IsOk(futures[p].resp)) =>
        /\ CentredIn(tmResp0.items, tm)
        /\ \A p \in DOMAIN futures : CentredIn(futures[p].resp.items, tm)
  /\ (EBJustReturned /\ EBAllPagesRead) =>
        /\ CentredIn(ebResp0.items, eb)
        /\ \A i \in DOMAIN ebLog : CentredIn(ebLog[i].items, eb)

\* the url of the Event of an item, base being the address of the
\* provider's event pages: the url field when it starts with "http", else
\* the address made of base and the id, else none
UrlRule(item, url, base) ==
  IF item.url.http THEN url = item.url
  ELSE IF item.id # "" THEN url = Url(TRUE, base, item.id)
  ELSE url = NoUrl

\* each item of the page with a date has in list an Event whose url follows
\* the rule for some base
UrlsIn(items, list) ==
  \A i \in 1..Len(items) :
    HasDate(items[i]) =>
      \E k \in 1..Len(list) :
        /\ list[k].title = items[i].name
        /\ \E base \in {TMEventBase, list[k].url.base} :
             UrlRule(items[i], list[k].url, base)

\* C20: in both clients the url of an Event is the url field of the item
\* when it starts with "http", otherwise the canonical address made from
\* the id when the id is not empty, otherwise the empty string.
C20_UrlPreferDirectElseFromId ==
  /\ (TMJustReturned /\ TMAllPagesRead) =>
        /\ UrlsIn(tmResp0.items, tm)
        /\ \A p \in DOMAIN futures : UrlsIn(futures[p].resp.items, tm)
  /\ (EBJustReturned /\ EBAllPagesRead) =>
        /\ UrlsIn(ebResp0.items, eb)
        /\ \A i \in DOMAIN ebLog : UrlsIn(ebLog[i].items, eb)

\* the credential a provider must see: the caller's when there is one, the
\* built-in one otherwise
CredentialFor(callerKey, default) == IF callerKey # "" THEN callerKey ELSE default

\* C21: every request to a provider carries the credential the caller
\* supplied for that provider when it is not empty, and the built-in
\* default only when the caller supplied none.
C21_RequestsCarryCallerCredential ==
  \A i \in 1..Len(requests) :
    /\ requests[i].to = "tm" =>
         requests[i].key = CredentialFor(tm_key, DEFAULT_TM_API_KEY)
    /\ requests[i].to = "eb" =>
         requests[i].key = CredentialFor(eb_key, DEFAULT_EB_API_KEY)

\* out of fetch_ticketmaster_events when the futures of pages 1 .. n are
\* handled in the order of their pages
RECURSIVE TMOutInPageOrder(_)
TMOutInPageOrder(n) ==
  IF n = 0 THEN TMProcess(tmResp0.items, coords.lat, coords.lon).events
  ELSE TMConsumeFuture(TMOutInPageOrder(n - 1), futures[n], coords.lat, coords.lon)

\* what aggregate_events returns for the Ticketmaster events tmList when the
\* Eventbrite fetch returns ebList
ResultFor(tmList, ebList) == SortByDate(Dedup(AllEvents(tmList, ebList)))

\* C22: for fixed responses the list aggregate_events returns does not
\* depend on the order in which the Ticketmaster page requests complete: it
\* is the list returned when they complete in the order of their pages
\* (stated for an Eventbrite fetch that returns no event).
C22_ResultIndependentOfCompletionOrder ==
  /\ (TMJustReturned /\ IsOk(tmResp0) /\ tmExc = "") =>
        ResultFor(tm, <<>>) = ResultFor(TMOutInPageOrder(Len(futures)), <<>>)
  /\ (Returned /\ tmEnd = "returned" /\ eb = <<>>) => result = ResultFor(tm, <<>>)

\* number of items of the page with the name t, a date and a readable venue
SoundCount(items, t) ==
  Cardinality({i \in 1..Len(items) :
                 HasDate(items[i]) /\ VenueReadable(items[i]) /\ items[i].name = t})

\* the names of the items with a date and a readable venue
SoundNames(items) ==
  {items[i].name : i \in {k \in 1..Len(items) : HasDate(items[k]) /\ VenueReadable(items[k])}}

\* C23: an item that is malformed in a field other than its date (a venue
\* latitude that is null or no number, an empty venue list) costs at most
\* that item: every other item of every page has its Event in the returned
\* list, on the first page as on a later one, in both clients.
C23_MalformedItemCostsOnlyItself ==
  /\ (TMJustReturned /\ IsOk(tmResp0) /\ \A p \in DOMAIN futures : IsOk(futures[p].resp)) =>
        \A t \in SoundNames(tmResp0.items)
                 \cup UNION {SoundNames(futures[p].resp.items) : p \in DOMAIN futures} :
          TitleCount(tm, t) =
            SoundCount(tmResp0.items, t)
              + SumSeq([p \in DOMAIN futures |-> SoundCount(futures[p].resp.items, t)])
  /\ (EBJustReturned /\ EBAllPagesRead) =>
        \A t \in SoundNames(ebResp0.items)
                 \cup UNION {SoundNames(ebLog[i].items) : i \in DOMAIN ebLog} :
          TitleCount(eb, t) =
            SoundCount(ebResp0.items, t)
              + SumSeq([i \in DOMAIN ebLog |-> SoundCount(ebLog[i].items, t)])

\* C24: deduplication and sorting neither make nor change events: every
\* returned Event is, field by field, an Event of one of the two provider
\* lists, and every dedup key of the merged list has exactly one returned
\* Event.
C24_ResultIsSelectionOfProviderEvents ==
  Returned =>
    /\ \A r \in 1..Len(result) : result[r] \in Range(tm) \cup Range(eb)
    /\ \A i \in 1..Len(Merged) :
         Cardinality({r \in 1..Len(result) : KeyOf(result[r]) = KeyOf(Merged[i])}) = 1

C24_Witness ==
  /\ Returned
  /\ Len(result) >= 2 /\ Len(result) < Len(Merged)
  /\ \E r \in 1..Len(result) : result[r].source = "Ticketmaster" /\ Head(result[r].title) = " "
  /\ \E r \in 1..Len(result) : result[r].source = "Eventbrite"
  /\ result[1] # Merged[1]


\* the Ticketmaster response of the calendar is a 200 whose body has an
\* _embedded.events list
CalListsEvents ==
  /\ calendar_response.kind = "ok" /\ calendar_response.status = 200
  /\ calendar_response.body._embedded = "events"

\* C25: with a Ticketmaster key configured and a 200 response whose body has
\* an _embedded.events list, fetch_ticketmaster_events returns one parsed
\* dict for every listed event that parses and lies within RADIUS_MILES of
\* the centre, and these dicts are in the list fetch_all_events returns
C25_CalendarFetchesListedEvents ==
  (calendar_pc \in {"eventbrite", "done"} /\ ticketmaster_api_key # NoKey /\ CalListsEvents) =>
    /\ calendar_fetched = CalParseAll(calendar_response.body.events, "Ticketmaster")
    /\ calendar_pc = "done" =>
         \A i \in 1..Len(calendar_fetched) : calendar_fetched[i] \in Range(calendar_events)
====
